---- MODULE Spec2Model ----
(***************************************************************************)
(* twitter_delete: the rate-limited, batched lookup/delete client          *)
(* (src/src/twitter.rs), the tweet store (src/src/db.rs) and the commands  *)
(* that drive them (src/src/main.rs).                                      *)
(*                                                                         *)
(* Strings are sequences of character codes ("1" is <<49>>, "," is 44), so *)
(* that joining ids and ordering them bytewise are computed, not assumed.  *)
(* 64-bit integers are scaled to IntBits bits: u64 is 0 .. 2^IntBits - 1   *)
(* and i64 is -2^(IntBits-1) .. 2^(IntBits-1) - 1.                         *)
(***************************************************************************)
EXTENDS Integers, Sequences, FiniteSets, TLC

VARIABLES
    tweets,     \* table `tweets`: id_str |-> row
    accounts,   \* table `accounts`: the set of account id_str
    cmd,        \* the running command: "none", "lookup", "import", "delete"
    pc,         \* position of the process inside the command
    result,     \* how the last command ended: "none", "ok", "err"
    input,      \* the id sequence handed to lookup_tweets / delete_tweets
    rest,       \* what the `tweets` iterator has not yielded yet
    req,        \* the RequestBuilder built for the current chunk / id
    res,        \* the Response the sender handed back to its caller
    nonceCtr,   \* how many nonces thread_rng has produced in this process
    requests,   \* history: the `id` parameter of every request issued
    called,     \* history: how many times on_chunk / on_result was invoked
    snd,        \* history of the current rate_limit call
    imp,        \* history of the import commands
    args,       \* the arguments of the running delete command
    server,     \* the statuses the remote API answers with in this run
    mark,       \* history: the last direct call of checked / deleted
    cb          \* history: what the last on_chunk / on_result returned

vars == <<tweets, accounts, cmd, pc, result, input, rest, req, res, nonceCtr,
          requests, called, snd, imp, args, server, mark, cb>>

store == <<tweets, accounts>>
client == <<input, rest, req, res, nonceCtr, requests, called, snd>>

---------------------------------------------------------------------------
(* Bounds of the model *)

\* longest id sequence handed to lookup_tweets in SpecLookup
MaxIds == 250
\* attempts after which the model stops following one rate_limit call
MaxAttempts == 3
\* number of bits standing for the 64 bits of u64 / i64
IntBits == 20
\* the reading of OffsetDateTime::now_utc().unix_timestamp()
Now0 == 200000
\* longest id sequence handed to checked / deleted in SpecMarks
MaxMarkIds == 2

(* Program constants *)

\* tweets.take(100)
BatchSize == 100
\* 60 * 15
FallbackSecs == 900
\* sleep(StdDuration::from_secs(60))
TransientSecs == 60
\* join(",")
Comma == 44
\* StatusCode::TOO_MANY_REQUESTS
TOO_MANY_REQUESTS == 429
\* StatusCode::FORBIDDEN
FORBIDDEN == 403
\* StatusCode::NOT_FOUND
NOT_FOUND == 404

---------------------------------------------------------------------------
(* Strings and integers *)

Min(a, b) == IF a < b THEN a ELSE b
Max(a, b) == IF a > b THEN a ELSE b

RECURSIVE Decimal(_)
\* n.to_string() for n >= 0
Decimal(n) == IF n < 10 THEN <<48 + n>> ELSE Decimal(n \div 10) \o <<48 + (n % 10)>>

\* take() off by one: a chunk of n - 1 items
TakeOneLess(s, n) == SubSeq(s, 1, Min(n - 1, Len(s)))

\* Iterator::take(n).collect(): the first n items (fewer if the iterator ends)
Take(s, n) == SubSeq(s, 1, Min(n, Len(s)))

\* an iterator that is advanced by one item less than take(n) yielded
DropOneLess(s, n) == SubSeq(s, Min(n - 1, Len(s)) + 1, Len(s))

\* what the by_ref iterator still holds after take(n) was collected
Drop(s, n) == SubSeq(s, Min(n, Len(s)) + 1, Len(s))

RECURSIVE JoinRange(_, _, _)
\* the items lo..hi of s with one comma between neighbours, computed by
\* halves, which bounds the depth of the recursion
JoinRange(s, lo, hi) ==
    IF lo = hi THEN s[lo]
    ELSE JoinRange(s, lo, (lo + hi) \div 2) \o <<Comma>>
         \o JoinRange(s, (lo + hi) \div 2 + 1, hi)

\* [&str]::join(","): the items with one comma between neighbours.
Join(s) == IF s = <<>> THEN <<>> ELSE JoinRange(s, 1, Len(s))

\* positions of the commas of str
Commas(str) == {i \in 1..Len(str) : str[i] = Comma}

\* position of the k-th comma of str; 0 for k = 0, Len(str) + 1 past the last
CommaAt(str, k) ==
    IF k = 0 THEN 0
    ELSE IF k > Cardinality(Commas(str)) THEN Len(str) + 1
    ELSE CHOOSE i \in Commas(str) : Cardinality({j \in Commas(str) : j < i}) = k - 1

\* the server's reading of the `id` form parameter: the ids between commas
Split(str) ==
    IF str = <<>> THEN <<>>
    ELSE [k \in 1..(Cardinality(Commas(str)) + 1) |->
            SubSeq(str, CommaAt(str, k - 1) + 1, CommaAt(str, k) - 1)]

Pow2(n) == 2 ^ n
I64Min == 0 - Pow2(IntBits - 1)
I64Max == Pow2(IntBits - 1) - 1
U64Max == Pow2(IntBits) - 1

\* `x as i64` for x: u64
AsI64(x) == IF x > I64Max THEN x - Pow2(IntBits) ELSE x

\* `x as u64` for x: i64
AsU64(x) == x % Pow2(IntBits)

\* i64::checked_sub(a, b).unwrap_or(d)
CheckedSubOr(a, b, d) == IF a - b < I64Min \/ a - b > I64Max THEN d ELSE a - b

---------------------------------------------------------------------------
(* Responses of the remote API *)

NoSleep == 0 - 1

\* header x-rate-limit-reset: absent, not visible ASCII (to_str fails),
\* text that is no u64 (parse fails), or a u64
NoHeader == [kind |-> "absent", val |-> 0]
ResetHeaders ==
    {NoHeader, [kind |-> "binary", val |-> 0], [kind |-> "text", val |-> 0]}
    \cup {[kind |-> "num", val |-> v] :
            v \in {Now0 - 5, Now0, Now0 + 5, Pow2(IntBits - 1), U64Max}}

NoBody == [json |-> FALSE, id |-> <<>>]

is_success(status) == status >= 200 /\ status <= 299
is_client_error(status) == status >= 400 /\ status <= 499
is_server_error(status) == status >= 500 /\ status <= 599

Statuses == {200, 304, 400, FORBIDDEN, NOT_FOUND, TOO_MANY_REQUESTS, 503}

NoRes == [status |-> 0, reset |-> NoHeader, body |-> NoBody]

NoLimit == [kind |-> "none", secs |-> 0]

---------------------------------------------------------------------------
(* twitter.rs: create_auth, rate_limit, lookup_tweets *)

\* The Authorization header: of everything create_auth puts into it the
\* model keeps the two per-call values, oauth_nonce and oauth_timestamp.
\* The n-th sample_string(&mut rng, 32) is the nonce n.
create_auth(n, now) == [oauth_nonce |-> n, oauth_timestamp |-> now]

NoReq == [ids |-> <<>>, auth |-> create_auth(0, 0)]

NoSnd == [attempts |-> 0, hooks |-> 0, sleeps |-> 0, n429 |-> 0, n5xx |-> 0,
          nonces |-> <<>>, last |-> NoRes, lastSleep |-> NoSleep,
          lastLimit |-> NoLimit, hookErr |-> FALSE, failed |-> "no"]

Break == [ctl |-> "break", limit |-> NoLimit, sleep |-> NoSleep, why |-> "no"]
Loop(limit, secs) == [ctl |-> "loop", limit |-> limit, sleep |-> secs, why |-> "no"]
Fail(limit, why) == [ctl |-> "err", limit |-> limit, sleep |-> NoSleep, why |-> why]

\* rate_limit that goes on to sleep and retry although on_limit returned Err
rate_limit_pass_hook_ignored(r, now, hookOk, bodyOk) ==
    IF is_success(r.status) THEN Break
    ELSE IF r.status = TOO_MANY_REQUESTS THEN
        IF r.reset.kind = "absent"
        THEN Loop([kind |-> "Unknown", secs |-> 0], FallbackSecs)
        ELSE IF r.reset.kind = "binary" THEN Fail(NoLimit, "to_str")
        ELSE IF r.reset.kind = "text" THEN Fail(NoLimit, "parse")
        ELSE Loop([kind |-> "Until", secs |-> r.reset.val],
                  AsU64(CheckedSubOr(AsI64(r.reset.val), now, FallbackSecs)))
    ELSE IF is_server_error(r.status) THEN
        IF bodyOk THEN Loop(NoLimit, TransientSecs) ELSE Fail(NoLimit, "text")
    ELSE IF is_client_error(r.status) THEN
        IF bodyOk THEN Fail(NoLimit, "status") ELSE Fail(NoLimit, "text")
    ELSE Loop(NoLimit, NoSleep)

\* rate_limit that treats a 5xx like a 4xx: a terminal failure
rate_limit_pass_5xx_fatal(r, now, hookOk, bodyOk) ==
    IF is_success(r.status) THEN Break
    ELSE IF r.status = TOO_MANY_REQUESTS THEN
        IF r.reset.kind = "absent" THEN
            IF hookOk
            THEN Loop([kind |-> "Unknown", secs |-> 0], FallbackSecs)
            ELSE Fail([kind |-> "Unknown", secs |-> 0], "hook")
        ELSE IF r.reset.kind = "binary" THEN Fail(NoLimit, "to_str")
        ELSE IF r.reset.kind = "text" THEN Fail(NoLimit, "parse")
        ELSE IF hookOk
             THEN Loop([kind |-> "Until", secs |-> r.reset.val],
                       AsU64(CheckedSubOr(AsI64(r.reset.val), now, FallbackSecs)))
             ELSE Fail([kind |-> "Until", secs |-> r.reset.val], "hook")
    ELSE IF is_server_error(r.status) \/ is_client_error(r.status) THEN
        IF bodyOk THEN Fail(NoLimit, "status") ELSE Fail(NoLimit, "text")
    ELSE Loop(NoLimit, NoSleep)

\* rate_limit without its last branch: a 4xx falls out of the if chain and
\* the loop sends again
rate_limit_pass_4xx_retried(r, now, hookOk, bodyOk) ==
    IF is_success(r.status) THEN Break
    ELSE IF r.status = TOO_MANY_REQUESTS THEN
        IF r.reset.kind = "absent" THEN
            IF hookOk
            THEN Loop([kind |-> "Unknown", secs |-> 0], FallbackSecs)
            ELSE Fail([kind |-> "Unknown", secs |-> 0], "hook")
        ELSE IF r.reset.kind = "binary" THEN Fail(NoLimit, "to_str")
        ELSE IF r.reset.kind = "text" THEN Fail(NoLimit, "parse")
        ELSE IF hookOk
             THEN Loop([kind |-> "Until", secs |-> r.reset.val],
                       AsU64(CheckedSubOr(AsI64(r.reset.val), now, FallbackSecs)))
             ELSE Fail([kind |-> "Until", secs |-> r.reset.val], "hook")
    ELSE IF is_server_error(r.status) THEN
        IF bodyOk THEN Loop(NoLimit, TransientSecs) ELSE Fail(NoLimit, "text")
    ELSE Loop(NoLimit, NoSleep)

\* One pass of the loop of rate_limit after req.send() returned `r`:
\* what the pass does with the response. hookOk: on_limit returns Ok;
\* bodyOk: res.text() returns Ok.
rate_limit_pass(r, now, hookOk, bodyOk) ==
    IF is_success(r.status) THEN Break
    ELSE IF r.status = TOO_MANY_REQUESTS THEN
        IF r.reset.kind = "absent" THEN
            IF hookOk
            THEN Loop([kind |-> "Unknown", secs |-> 0], FallbackSecs)
            ELSE Fail([kind |-> "Unknown", secs |-> 0], "hook")
        ELSE IF r.reset.kind = "binary" THEN Fail(NoLimit, "to_str")
        ELSE IF r.reset.kind = "text" THEN Fail(NoLimit, "parse")
        ELSE
            LET secs == r.reset.val
                limit == [kind |-> "Until", secs |-> secs]
            IN  IF hookOk
                THEN Loop(limit, AsU64(CheckedSubOr(AsI64(secs), now, FallbackSecs)))
                ELSE Fail(limit, "hook")
    ELSE IF is_server_error(r.status) THEN
        IF bodyOk THEN Loop(NoLimit, TransientSecs) ELSE Fail(NoLimit, "text")
    ELSE IF is_client_error(r.status) THEN
        IF bodyOk THEN Fail(NoLimit, "status") ELSE Fail(NoLimit, "text")
    ELSE Loop(NoLimit, NoSleep)

---------------------------------------------------------------------------
(* The responses the remote API may give to the current request *)

\* the ids the server reads out of the request's `id` parameter
RequestedIds == {Split(req.ids)[i] : i \in 1..Len(Split(req.ids))}

\* bodies of a 2xx answer: for the import command's lookup either no JSON
\* or a map from every requested id to Some(tweet) (TRUE) or None (FALSE)
Bodies(status) ==
    IF cmd = "import" /\ is_success(status)
    THEN {NoBody} \cup {[json |-> TRUE, id |-> f] : f \in [RequestedIds -> BOOLEAN]}
    ELSE {NoBody}

Responses ==
    UNION {{[status |-> s, reset |-> h, body |-> b] :
                h \in (IF s = TOO_MANY_REQUESTS THEN ResetHeaders ELSE {NoHeader}),
                b \in Bodies(s)} : s \in server}

---------------------------------------------------------------------------
(* lookup_tweets and rate_limit as steps of the single thread *)

\* the history of the rate_limit call after one more pass
Passed(r, p, hookOk) ==
    [attempts |-> snd.attempts + 1,
     hooks |-> snd.hooks + (IF p.limit.kind = "none" THEN 0 ELSE 1),
     sleeps |-> snd.sleeps + (IF p.sleep = NoSleep THEN 0 ELSE 1),
     n429 |-> snd.n429 + (IF r.status = TOO_MANY_REQUESTS THEN 1 ELSE 0),
     n5xx |-> snd.n5xx + (IF is_server_error(r.status) THEN 1 ELSE 0),
     nonces |-> Append(snd.nonces, req.auth.oauth_nonce),
     last |-> r, lastSleep |-> p.sleep, lastLimit |-> p.limit,
     hookErr |-> (p.limit.kind # "none" /\ ~hookOk),
     failed |-> IF p.ctl = "err" THEN p.why ELSE "no"]

\* lookup_tweets that goes round the loop again on an empty joined string
\* (`continue` where the code has `break`)
LookupChunk_no_break ==
    /\ cmd \in {"lookup", "import"}
    /\ pc = "chunk"
    /\ LET ids == Join(Take(rest, BatchSize))
       IN  /\ rest' = Drop(rest, BatchSize)
           /\ IF ids = <<>>
              THEN /\ pc' = "chunk"
                   /\ UNCHANGED <<result, req, nonceCtr, snd>>
              ELSE /\ req' = [ids |-> ids, auth |-> create_auth(nonceCtr + 1, Now0)]
                   /\ nonceCtr' = nonceCtr + 1
                   /\ snd' = NoSnd
                   /\ pc' = "send"
                   /\ UNCHANGED result
    /\ UNCHANGED <<store, cmd, input, res, requests, called, imp, args, server, mark, cb>>

\* twitter.rs 301-323: one turn of the loop of lookup_tweets up to the call
\* of rate_limit: take the next 100 ids, stop if the joined string is empty,
\* else build the signed request.
LookupChunk ==
    /\ cmd \in {"lookup", "import"}
    /\ pc = "chunk"
    /\ LET ids == Join(Take(rest, BatchSize))
       IN  /\ rest' = Drop(rest, BatchSize)
           /\ IF ids = <<>>
              THEN /\ pc' = "done"
                   /\ result' = "ok"
                   /\ UNCHANGED <<req, nonceCtr, snd>>
              ELSE /\ req' = [ids |-> ids, auth |-> create_auth(nonceCtr + 1, Now0)]
                   /\ nonceCtr' = nonceCtr + 1
                   /\ snd' = NoSnd
                   /\ pc' = "send"
                   /\ UNCHANGED result
    /\ UNCHANGED <<store, cmd, input, res, requests, called, imp, args, server, mark, cb>>

\* twitter.rs 344-389: one pass of the loop of rate_limit: clone the request,
\* send it, and act on the response (hook, sleep, break, return Err).
Attempt ==
    /\ cmd \in {"lookup", "import"}
    /\ pc = "send"
    /\ snd.attempts < MaxAttempts
    /\ \E r \in Responses, hookOk \in BOOLEAN, bodyOk \in BOOLEAN :
          LET p == rate_limit_pass(r, Now0, hookOk, bodyOk)
          IN  /\ snd' = Passed(r, p, hookOk)
              /\ requests' = IF snd.attempts = 0 THEN Append(requests, req.ids)
                             ELSE requests
              /\ CASE p.ctl = "break" ->
                          pc' = "callback" /\ res' = r /\ UNCHANGED result
                   [] p.ctl = "loop" ->
                          pc' = "send" /\ UNCHANGED <<res, result>>
                   [] OTHER ->
                          pc' = "done" /\ result' = "err" /\ UNCHANGED res
    /\ UNCHANGED <<store, cmd, input, rest, req, nonceCtr, called, imp, args, server, mark, cb>>

\* twitter.rs 349: req.send()? fails (no response): rate_limit returns Err
SendFails ==
    /\ cmd \in {"lookup", "import"}
    /\ pc = "send"
    /\ snd.attempts < MaxAttempts
    /\ snd' = [snd EXCEPT !.attempts = @ + 1,
                          !.nonces = Append(@, req.auth.oauth_nonce),
                          !.last = NoRes, !.lastSleep = NoSleep,
                          !.lastLimit = NoLimit, !.hookErr = FALSE,
                          !.failed = "send"]
    /\ requests' = IF snd.attempts = 0 THEN Append(requests, req.ids) ELSE requests
    /\ pc' = "done"
    /\ result' = "err"
    /\ UNCHANGED <<store, cmd, input, rest, req, res, nonceCtr, called, imp, args, server, mark, cb>>

\* lookup_tweets that drops what on_chunk returns (no `?`): after an Err of
\* the callback the loop takes the next chunk
OnChunk_error_ignored ==
    /\ cmd = "lookup"
    /\ pc = "callback"
    /\ called' = called + 1
    /\ \E ok \in BOOLEAN : cb' = IF ok THEN "ok" ELSE "err"
    /\ pc' = "chunk"
    /\ UNCHANGED <<store, cmd, result, input, rest, req, res, nonceCtr, requests,
                   snd, imp, args, server, mark>>

\* twitter.rs 325: on_chunk(res)? for a caller-supplied on_chunk, which
\* returns Ok or Err
OnChunk ==
    /\ cmd = "lookup"
    /\ pc = "callback"
    /\ called' = called + 1
    /\ \E ok \in BOOLEAN :
          IF ok THEN cb' = "ok" /\ pc' = "chunk" /\ UNCHANGED result
          ELSE cb' = "err" /\ pc' = "done" /\ result' = "err"
    /\ UNCHANGED <<store, cmd, input, rest, req, res, nonceCtr, requests, snd,
                   imp, args, server, mark>>

---------------------------------------------------------------------------
(* SpecLookup: lookup_tweets over id sequences of every length up to MaxIds *)

\* the ids "1", "2", ... "n"
IdSeq(n) == [i \in 1..n |-> Decimal(i)]

NoImp == [src |-> "none", again |-> FALSE, done |-> {}, added |-> 0, err |-> FALSE]
NoArgs == [off |-> 0, exclude |-> {}, unless_likes |-> 0, unless_retweets |-> 0]

NoMark == [op |-> "none", ids |-> <<>>, failAt |-> 0, gone |-> 0, err |-> FALSE]

EmptyTable == [i \in {} |-> 0]

\* the lengths at which the remote API also answers with failures; at the
\* other lengths every request succeeds at once
FaultyLens == {1, BatchSize + 1, MaxIds}

InitLookup ==
    /\ tweets = EmptyTable
    /\ accounts = {}
    /\ cmd = "lookup"
    /\ pc = "chunk"
    /\ result = "none"
    /\ \E n \in 0..MaxIds, emptyLast \in BOOLEAN, s \in {{200}, Statuses} :
          /\ s = Statuses => n \in FaultyLens
          /\ server = s
          /\ input = IF emptyLast /\ n > 0
                     THEN [IdSeq(n) EXCEPT ![n] = <<>>]
                     ELSE IdSeq(n)
    /\ rest = input
    /\ req = NoReq
    /\ res = NoRes
    /\ nonceCtr = 0
    /\ requests = <<>>
    /\ called = 0
    /\ snd = NoSnd
    /\ imp = NoImp
    /\ args = NoArgs
    /\ mark = NoMark
    /\ cb = "none"

NextLookup == LookupChunk \/ Attempt \/ SendFails \/ OnChunk

SpecLookup == InitLookup /\ [][NextLookup]_vars

---------------------------------------------------------------------------
(* SpecLive: lookup_tweets against a remote API that answers every request,
   after at most MaxAttempts - 1 responses 429 or 5xx, with a 2xx or with a
   4xx other than 429, run by a thread that always takes its next step *)

\* the response classes after which rate_limit sleeps and sends again
IsRetried(status) == status = TOO_MANY_REQUESTS \/ is_server_error(status)

\* the response classes that end rate_limit
IsFinal(status) ==
    is_success(status) \/ (is_client_error(status) /\ status # TOO_MANY_REQUESTS)

\* the response of this pass is 429, 5xx, 2xx or 4xx, and the last response
\* the API gives to a request is a 2xx or a 4xx other than 429
Answering ==
    /\ IsRetried(snd'.last.status) \/ IsFinal(snd'.last.status)
    /\ snd'.attempts = MaxAttempts => IsFinal(snd'.last.status)

\* one pass of rate_limit against the answering API
AttemptAnswered == Attempt /\ Answering

NextLive == LookupChunk \/ AttemptAnswered \/ SendFails \/ OnChunk

\* the single thread runs on: sleep, send and the callbacks return
SpecLive == InitLookup /\ [][NextLive]_vars /\ WF_vars(NextLive)

---------------------------------------------------------------------------
(* db.rs: the tweets table and its operations *)

\* bytewise order of two strings, as ORDER BY id_str ASC compares TEXT
StrLess(a, b) ==
    \E i \in 1..(Min(Len(a), Len(b)) + 1) :
        /\ \A j \in 1..(i - 1) : a[j] = b[j]
        /\ IF i <= Len(a) /\ i <= Len(b) THEN a[i] < b[i]
           ELSE i > Len(a) /\ i <= Len(b)

RECURSIVE SortAsc(_)
\* the ids of S in ascending order
SortAsc(S) ==
    IF S = {} THEN <<>>
    ELSE LET m == CHOOSE x \in S : \A y \in S \ {x} : StrLess(x, y)
         IN  <<m>> \o SortAsc(S \ {m})

\* models::Tweet::new
TweetNew(id_str, retweets, likes, created_at, account_id) ==
    [retweets |-> retweets, likes |-> likes, created_at |-> created_at,
     deleted |-> FALSE, checked |-> FALSE, account_id |-> account_id]

\* the table with the row `row` under the key `id`
WithRow(tw, id, row) ==
    [k \in DOMAIN tw \cup {id} |-> IF k = id THEN row ELSE tw[k]]

RECURSIVE add_tweets_replacing(_, _)
\* INSERT OR REPLACE: a row whose id is already there is overwritten
add_tweets_replacing(tw, new) ==
    IF new = <<>> THEN [tweets |-> tw, added |-> 0, err |-> FALSE]
    ELSE LET t == Head(new)
             r == add_tweets_replacing(
                      WithRow(tw, t.id_str,
                              TweetNew(t.id_str, t.retweets, t.likes,
                                       t.created_at, t.account_id)),
                      Tail(new))
         IN  [r EXCEPT !.added = @ + 1]

\* plain INSERT: a duplicate id is a constraint error and nothing is inserted
add_tweets_plain(tw, new) ==
    IF \E i \in 1..Len(new) :
           \/ new[i].id_str \in DOMAIN tw
           \/ \E j \in 1..(i - 1) : new[j].id_str = new[i].id_str
    THEN [tweets |-> tw, added |-> 0, err |-> TRUE]
    ELSE add_tweets_replacing(tw, new)

RECURSIVE add_tweets(_, _)
\* add_tweets: INSERT OR IGNORE of every tweet of `new`, in order; a tweet
\* whose id is already in the table is skipped; `added` counts the rows
\* inserted
add_tweets(tw, new) ==
    IF new = <<>> THEN [tweets |-> tw, added |-> 0, err |-> FALSE]
    ELSE LET t == Head(new)
         IN  IF t.id_str \in DOMAIN tw
             THEN add_tweets(tw, Tail(new))
             ELSE LET r == add_tweets(
                               WithRow(tw, t.id_str,
                                       TweetNew(t.id_str, t.retweets, t.likes,
                                                t.created_at, t.account_id)),
                               Tail(new))
                  IN  [r EXCEPT !.added = @ + 1]

\* add_account: the account is inserted unless its id is already there
add_account(acc, id) == acc \cup {id}

\* count_tweets
count_tweets(tw) == Cardinality(DOMAIN tw)

\* existing() that looks at deleted only: a checked tweet is selected again
existing_not_deleted(row) == row.deleted = FALSE

\* existing(): deleted = false AND checked = false
existing(row) == row.deleted = FALSE /\ row.checked = FALSE

\* created_at.le(utc): a tweet created at the cutoff itself counts as older
created_before_inclusive(row, utc) == row.created_at <= utc

\* created_before(utc): created_at < utc
created_before(row, utc) == row.created_at < utc

RECURSIVE MarkChecked_counts_changed(_, _)
\* updates that count only the rows whose flag they change
MarkChecked_counts_changed(tw, ids) ==
    IF ids = <<>> THEN [tweets |-> tw, gone |-> 0]
    ELSE LET id == Head(ids)
             hit == id \in DOMAIN tw
             new == hit /\ ~tw[id].checked
             r == MarkChecked_counts_changed(
                      IF hit THEN [tw EXCEPT ![id].checked = TRUE] ELSE tw, Tail(ids))
         IN  [r EXCEPT !.gone = @ + (IF new THEN 1 ELSE 0)]

RECURSIVE MarkChecked(_, _)
MarkChecked(tw, ids) ==
    IF ids = <<>> THEN [tweets |-> tw, gone |-> 0]
    ELSE LET id == Head(ids)
             hit == id \in DOMAIN tw
             r == MarkChecked(IF hit THEN [tw EXCEPT ![id].checked = TRUE] ELSE tw,
                              Tail(ids))
         IN  [r EXCEPT !.gone = @ + (IF hit THEN 1 ELSE 0)]

RECURSIVE MarkDeleted_also_checked(_, _)
\* updates that set checked along with deleted
MarkDeleted_also_checked(tw, ids) ==
    IF ids = <<>> THEN [tweets |-> tw, gone |-> 0]
    ELSE LET id == Head(ids)
             hit == id \in DOMAIN tw
             r == MarkDeleted_also_checked(
                      IF hit THEN [tw EXCEPT ![id].deleted = TRUE, ![id].checked = TRUE]
                      ELSE tw,
                      Tail(ids))
         IN  [r EXCEPT !.gone = @ + (IF hit THEN 1 ELSE 0)]

RECURSIVE MarkDeleted(_, _)
MarkDeleted(tw, ids) ==
    IF ids = <<>> THEN [tweets |-> tw, gone |-> 0]
    ELSE LET id == Head(ids)
             hit == id \in DOMAIN tw
             r == MarkDeleted(IF hit THEN [tw EXCEPT ![id].deleted = TRUE] ELSE tw,
                              Tail(ids))
         IN  [r EXCEPT !.gone = @ + (IF hit THEN 1 ELSE 0)]

\* updates that are committed one by one: an error leaves those made before
\* it in place
transaction_autocommit(before, after, err) == after

\* conn.transaction(|conn| ...): the table after the closure ran; the
\* updates of the closure are committed when it returns Ok and rolled back
\* when it returns Err
transaction(before, after, err) == IF err THEN before ELSE after

\* checked(conn, tweets): one transaction that sets checked = true on every
\* id of `ids`, in order, and returns the number of rows the updates matched.
\* failAt = k in 1..Len(ids): the k-th update returns a storage error, after
\* the k - 1 updates before it were made, and the call returns Err;
\* failAt = 0: no error.
checked(tw, ids, failAt) ==
    LET err == failAt \in 1..Len(ids)
        m == MarkChecked(tw, SubSeq(ids, 1, IF err THEN failAt - 1 ELSE Len(ids)))
    IN  [tweets |-> transaction(tw, m.tweets, err),
         gone |-> IF err THEN 0 ELSE m.gone, err |-> err]

\* deleted(conn, tweets): the same for deleted = true
deleted(tw, ids, failAt) ==
    LET err == failAt \in 1..Len(ids)
        m == MarkDeleted(tw, SubSeq(ids, 1, IF err THEN failAt - 1 ELSE Len(ids)))
    IN  [tweets |-> transaction(tw, m.tweets, err),
         gone |-> IF err THEN 0 ELSE m.gone, err |-> err]

---------------------------------------------------------------------------
(* main.rs: the commands *)

Id1 == <<49>>
Id10 == <<49, 48>>
Id2 == <<50>>

\* seconds of Duration::days(1)
DaySecs == 86400

ArchiveTweet(id, rt, likes, at) ==
    [id_str |-> id, retweets |-> rt, likes |-> likes, created_at |-> at]

\* The archives a user may import, after collect_tweets and the parsing of
\* import_tweets: an account and its tweets. "A" lists tweet 1 twice and
\* shares tweet 2 with "B", with other counts.
Archives ==
    {[name |-> "A", account |-> "A",
      tweets |-> <<ArchiveTweet(Id1, 0, 0, Now0 - 2 * DaySecs - 100),
                   ArchiveTweet(Id2, 0, 5, Now0 - DaySecs),
                   ArchiveTweet(Id1, 9, 9, Now0 - 50)>>],
     [name |-> "B", account |-> "B",
      tweets |-> <<ArchiveTweet(Id2, 7, 0, Now0 - 50),
                   ArchiveTweet(Id10, 7, 0, Now0 - DaySecs - 100)>>]}

\* main.rs 145-161: the rows import_tweets builds from an archive
MTweets(a) ==
    [i \in 1..Len(a.tweets) |->
        [id_str |-> a.tweets[i].id_str, retweets |-> a.tweets[i].retweets,
         likes |-> a.tweets[i].likes, created_at |-> a.tweets[i].created_at,
         account_id |-> a.account]]

\* main.rs 163-175: the transaction of import_tweets
import_tweets(tw, acc, a) ==
    LET r == add_tweets(tw, MTweets(a))
    IN  IF r.err THEN [tweets |-> tw, accounts |-> acc, added |-> 0, err |-> TRUE]
        ELSE [tweets |-> r.tweets, accounts |-> add_account(acc, a.account),
              added |-> r.added, err |-> FALSE]

\* main.rs 236-240: the ids of the rows that are neither deleted nor checked,
\* ascending
unchecked_tweets(tw) == SortAsc({id \in DOMAIN tw : existing(tw[id])})

\* main.rs 308-316: the ids the delete command processes, ascending
to_process(tw, a) ==
    SortAsc({id \in DOMAIN tw :
                /\ created_before(tw[id], a.off)
                /\ tw[id].deleted = FALSE
                /\ id \notin a.exclude
                /\ tw[id].likes <= a.unless_likes
                /\ tw[id].retweets <= a.unless_retweets})

\* the arguments of a delete command; off is now - older_than days
DeleteArgs ==
    {[off |-> Now0 - d * DaySecs, exclude |-> e, unless_likes |-> l,
      unless_retweets |-> r] :
        d \in {0, 1, 2}, e \in {{}, {Id2}}, l \in {0, 5}, r \in {0, 7}}

\* the state of the process between two commands
Idle ==
    /\ cmd' = "none"
    /\ pc' = "idle"
    /\ result' = "none"
    /\ input' = <<>>
    /\ rest' = <<>>
    /\ req' = NoReq
    /\ res' = NoRes
    /\ requests' = <<>>
    /\ nonceCtr' = 0
    /\ called' = 0
    /\ snd' = NoSnd
    /\ args' = NoArgs
    /\ cb' = "none"

\* main.rs 224-250: the import command up to the call of lookup_tweets:
\* import the archive, then select the unchecked tweets
ImportCmd ==
    /\ pc = "idle"
    /\ \E a \in Archives :
          LET r == import_tweets(tweets, accounts, a)
          IN  /\ tweets' = r.tweets
              /\ accounts' = r.accounts
              /\ imp' = [src |-> a.name, again |-> a.name \in imp.done,
                         done |-> IF r.err THEN imp.done ELSE imp.done \cup {a.name},
                         added |-> r.added, err |-> r.err]
              /\ cmd' = "import"
              /\ IF r.err
                 THEN /\ pc' = "done"
                      /\ result' = "err"
                      /\ UNCHANGED <<input, rest>>
                 ELSE /\ pc' = "chunk"
                      /\ result' = "none"
                      /\ input' = unchecked_tweets(r.tweets)
                      /\ rest' = unchecked_tweets(r.tweets)
    /\ UNCHANGED <<req, res, nonceCtr, requests, called, snd, args, server, mark, cb>>

\* on_chunk without the enclosing transaction: checked and deleted each
\* commit on their own
ImportOnChunk_no_transaction ==
    /\ cmd = "import"
    /\ pc = "callback"
    /\ called' = called + 1
    /\ IF ~res.body.json
       THEN pc' = "done" /\ result' = "err" /\ UNCHANGED tweets
       ELSE LET keys == SortAsc(DOMAIN res.body.id)
                ids == SortAsc({k \in DOMAIN res.body.id : ~res.body.id[k]})
            IN  \E failAt \in 0..(Len(keys) + Len(ids)) :
                   LET c == checked(tweets, keys, failAt)
                       d == IF c.err THEN c
                            ELSE deleted(c.tweets, ids, failAt - Len(keys))
                   IN  /\ tweets' = d.tweets
                       /\ IF d.err THEN pc' = "done" /\ result' = "err"
                          ELSE pc' = "chunk" /\ UNCHANGED result
    /\ cb' = IF pc' = "done" THEN "err" ELSE "ok"
    /\ UNCHANGED <<accounts, cmd, input, rest, req, res, nonceCtr, requests, snd,
                   imp, args, server, mark>>

\* main.rs 259-285: on_chunk of the import command: parse the body, then in
\* one transaction call checked on every key and, if that returned Ok,
\* deleted on every key mapped to None. failAt: which update of the two calls
\* returns a storage error (0: none).
ImportOnChunk ==
    /\ cmd = "import"
    /\ pc = "callback"
    /\ called' = called + 1
    /\ IF ~res.body.json
       THEN pc' = "done" /\ result' = "err" /\ UNCHANGED tweets
       ELSE LET keys == SortAsc(DOMAIN res.body.id)
                ids == SortAsc({k \in DOMAIN res.body.id : ~res.body.id[k]})
            IN  \E failAt \in 0..(Len(keys) + Len(ids)) :
                   LET c == checked(tweets, keys, failAt)
                       d == IF c.err THEN c
                            ELSE deleted(c.tweets, ids, failAt - Len(keys))
                   IN  /\ tweets' = transaction(tweets, d.tweets, d.err)
                       /\ IF d.err THEN pc' = "done" /\ result' = "err"
                          ELSE pc' = "chunk" /\ UNCHANGED result
    /\ cb' = IF pc' = "done" THEN "err" ELSE "ok"
    /\ UNCHANGED <<accounts, cmd, input, rest, req, res, nonceCtr, requests, snd,
                   imp, args, server, mark>>

\* main.rs 272-277: the process is killed inside the transaction of
\* on_chunk, after `done` of its updates were made: the transaction is never
\* committed
InterruptOnChunk ==
    /\ cmd = "import"
    /\ pc = "callback"
    /\ res.body.json
    /\ LET keys == SortAsc(DOMAIN res.body.id)
           ids == SortAsc({k \in DOMAIN res.body.id : ~res.body.id[k]})
       IN  \E done \in 0..(Len(keys) + Len(ids)) :
              LET c == MarkChecked(tweets, Take(keys, done)).tweets
                  d == MarkDeleted(c, Take(ids, Max(done - Len(keys), 0))).tweets
              IN  tweets' = transaction(tweets, d, TRUE)
    /\ Idle
    /\ UNCHANGED <<accounts, imp, server, mark>>

\* main.rs 293-322: the delete command up to the call of delete_tweets
DeleteCmd ==
    /\ pc = "idle"
    /\ \E a \in DeleteArgs :
          /\ args' = a
          /\ input' = to_process(tweets, a)
          /\ rest' = to_process(tweets, a)
    /\ cmd' = "delete"
    /\ pc' = "next"
    /\ UNCHANGED <<store, result, req, res, nonceCtr, requests, called, snd, imp,
                   server, mark, cb>>

\* delete_tweets: the next id of the input, or the end of the run
DeleteNext ==
    /\ cmd = "delete"
    /\ pc = "next"
    /\ IF rest = <<>>
       THEN /\ pc' = "done"
            /\ result' = "ok"
            /\ UNCHANGED <<rest, req, nonceCtr, snd>>
       ELSE /\ req' = [ids |-> Head(rest), auth |-> create_auth(nonceCtr + 1, Now0)]
            /\ rest' = Tail(rest)
            /\ nonceCtr' = nonceCtr + 1
            /\ snd' = NoSnd
            /\ pc' = "send"
            /\ UNCHANGED result
    /\ UNCHANGED <<store, cmd, input, res, requests, called, imp, args, server, mark, cb>>

\* the pass of the sender of delete_tweets: "not found" and "forbidden" are
\* handed to on_result, every other response is treated as by rate_limit
delete_pass(r, now, hookOk, bodyOk) ==
    IF r.status \in {FORBIDDEN, NOT_FOUND} THEN Break
    ELSE rate_limit_pass(r, now, hookOk, bodyOk)

\* delete_tweets: one attempt of the delete request of the current id
DeleteAttempt ==
    /\ cmd = "delete"
    /\ pc = "send"
    /\ snd.attempts < MaxAttempts
    /\ \E r \in Responses, hookOk \in BOOLEAN, bodyOk \in BOOLEAN :
          LET p == delete_pass(r, Now0, hookOk, bodyOk)
          IN  /\ snd' = Passed(r, p, hookOk)
              /\ requests' = IF snd.attempts = 0 THEN Append(requests, req.ids)
                             ELSE requests
              /\ CASE p.ctl = "break" ->
                          pc' = "callback" /\ res' = r /\ UNCHANGED result
                   [] p.ctl = "loop" ->
                          pc' = "send" /\ UNCHANGED <<res, result>>
                   [] OTHER ->
                          pc' = "done" /\ result' = "err" /\ UNCHANGED res
    /\ UNCHANGED <<store, cmd, input, rest, req, nonceCtr, called, imp, args, server, mark, cb>>

\* on_result without its first test: a forbidden response reaches
\* error_for_status and the callback returns Err
DeleteOnResult_forbidden_fatal ==
    /\ cmd = "delete"
    /\ pc = "callback"
    /\ called' = called + 1
    /\ IF res.status # NOT_FOUND /\ ~is_success(res.status)
       THEN pc' = "done" /\ result' = "err" /\ UNCHANGED tweets
       ELSE \E failAt \in 0..1 :
               LET d == deleted(tweets, <<req.ids>>, failAt)
               IN  /\ tweets' = d.tweets
                   /\ IF d.err THEN pc' = "done" /\ result' = "err"
                      ELSE pc' = "next" /\ UNCHANGED result
    /\ cb' = IF pc' = "done" THEN "err" ELSE "ok"
    /\ UNCHANGED <<accounts, cmd, input, rest, req, res, nonceCtr, requests, snd,
                   imp, args, server, mark>>

\* on_result that handles a forbidden response like a not-found one: the
\* id is marked deleted
DeleteOnResult_forbidden_deleted ==
    /\ cmd = "delete"
    /\ pc = "callback"
    /\ called' = called + 1
    /\ IF res.status \notin {FORBIDDEN, NOT_FOUND} /\ ~is_success(res.status)
       THEN pc' = "done" /\ result' = "err" /\ UNCHANGED tweets
       ELSE \E failAt \in 0..1 :
               LET d == deleted(tweets, <<req.ids>>, failAt)
               IN  /\ tweets' = d.tweets
                   /\ IF d.err THEN pc' = "done" /\ result' = "err"
                      ELSE pc' = "next" /\ UNCHANGED result
    /\ cb' = IF pc' = "done" THEN "err" ELSE "ok"
    /\ UNCHANGED <<accounts, cmd, input, rest, req, res, nonceCtr, requests, snd,
                   imp, args, server, mark>>

\* main.rs 331-363: on_result of the delete command: a forbidden tweet is
\* left alone, a tweet that was not found or whose delete request succeeded
\* is marked deleted. failAt = 1: the update returns a storage error.
DeleteOnResult ==
    /\ cmd = "delete"
    /\ pc = "callback"
    /\ called' = called + 1
    /\ IF res.status = FORBIDDEN
       THEN pc' = "next" /\ UNCHANGED <<tweets, result>>
       ELSE IF res.status # NOT_FOUND /\ ~is_success(res.status)
       THEN pc' = "done" /\ result' = "err" /\ UNCHANGED tweets
       ELSE \E failAt \in 0..1 :
               LET d == deleted(tweets, <<req.ids>>, failAt)
               IN  /\ tweets' = d.tweets
                   /\ IF d.err THEN pc' = "done" /\ result' = "err"
                      ELSE pc' = "next" /\ UNCHANGED result
    /\ cb' = IF pc' = "done" THEN "err" ELSE "ok"
    /\ UNCHANGED <<accounts, cmd, input, rest, req, res, nonceCtr, requests, snd,
                   imp, args, server, mark>>

\* update without the filter on account_id: every tweet is given the
\* archive's account
UpdateCmd_unfiltered ==
    /\ pc = "idle"
    /\ \E a \in Archives :
          /\ accounts' = add_account(accounts, a.account)
          /\ tweets' = [id \in DOMAIN tweets |->
                           [tweets[id] EXCEPT !.account_id = a.account]]
    /\ UNCHANGED <<cmd, pc, result, client, imp, args, server, mark, cb>>

\* main.rs 423-444: update --to v0.1.1: add the archive's account and give
\* it every tweet of the unknown account "0"
UpdateCmd ==
    /\ pc = "idle"
    /\ \E a \in Archives :
          /\ accounts' = add_account(accounts, a.account)
          /\ tweets' = [id \in DOMAIN tweets |->
                           IF tweets[id].account_id = "0"
                           THEN [tweets[id] EXCEPT !.account_id = a.account]
                           ELSE tweets[id]]
    /\ UNCHANGED <<cmd, pc, result, client, imp, args, server, mark, cb>>

\* the process ends: main returns Ok or Err
Exit ==
    /\ pc = "done"
    /\ Idle
    /\ UNCHANGED <<store, imp, server, mark>>

\* the process is killed while a command runs: what was committed stays,
\* everything else is lost
Interrupt ==
    /\ pc \in {"chunk", "send", "callback", "next"}
    /\ Idle
    /\ UNCHANGED <<store, imp, server, mark>>

\* the statuses the remote API answers with in Spec
StoreStatuses == {200, 400, FORBIDDEN, NOT_FOUND}

\* the table of a v0.1.0 database before `update`: a tweet of the unknown
\* account "0", imported and looked up by v0.1.0
LegacyTable ==
    WithRow(EmptyTable, Id1,
            [TweetNew(Id1, 0, 0, Now0 - 2 * DaySecs - 100, "0")
                EXCEPT !.checked = TRUE])

Init ==
    /\ tweets \in {EmptyTable, LegacyTable}
    /\ accounts = {"0"}
    /\ cmd = "none"
    /\ pc = "idle"
    /\ result = "none"
    /\ input = <<>>
    /\ rest = <<>>
    /\ req = NoReq
    /\ res = NoRes
    /\ nonceCtr = 0
    /\ requests = <<>>
    /\ called = 0
    /\ snd = NoSnd
    /\ imp = NoImp
    /\ args = NoArgs
    /\ server = StoreStatuses
    /\ mark = NoMark
    /\ cb = "none"

Next ==
    \/ ImportCmd \/ LookupChunk \/ Attempt \/ SendFails \/ ImportOnChunk
    \/ DeleteCmd \/ DeleteNext \/ DeleteAttempt \/ DeleteOnResult
    \/ UpdateCmd \/ Exit \/ Interrupt \/ InterruptOnChunk

Spec == Init /\ [][Next]_vars

---------------------------------------------------------------------------
(* SpecMarks: checked and deleted called directly, on every id sequence up *)
(* to MaxMarkIds ids and with a storage error at every update              *)

\* the ids of the calls: two that are in the table and one that is not
MarkIds == {Id1, Id2, Id10}

\* the id sequences of the calls (an id may repeat)
MarkSeqs == UNION {[1..k -> MarkIds] : k \in 0..MaxMarkIds}

\* the table after archive "A" was imported
ImportedTable ==
    add_tweets(EmptyTable,
               MTweets(CHOOSE a \in Archives : a.name = "A")).tweets

\* a call of checked(conn, ids)
CheckedCall ==
    /\ \E ids \in MarkSeqs, failAt \in 0..MaxMarkIds :
          /\ failAt <= Len(ids)
          /\ LET r == checked(tweets, ids, failAt)
             IN  /\ tweets' = r.tweets
                 /\ mark' = [op |-> "checked", ids |-> ids, failAt |-> failAt,
                             gone |-> r.gone, err |-> r.err]
    /\ UNCHANGED <<accounts, cmd, pc, result, client, imp, args, server, cb>>

\* a call of deleted(conn, ids)
DeletedCall ==
    /\ \E ids \in MarkSeqs, failAt \in 0..MaxMarkIds :
          /\ failAt <= Len(ids)
          /\ LET r == deleted(tweets, ids, failAt)
             IN  /\ tweets' = r.tweets
                 /\ mark' = [op |-> "deleted", ids |-> ids, failAt |-> failAt,
                             gone |-> r.gone, err |-> r.err]
    /\ UNCHANGED <<accounts, cmd, pc, result, client, imp, args, server, cb>>

InitMarks ==
    /\ tweets = ImportedTable
    /\ accounts = {"0", "A"}
    /\ cmd = "none"
    /\ pc = "idle"
    /\ result = "none"
    /\ input = <<>>
    /\ rest = <<>>
    /\ req = NoReq
    /\ res = NoRes
    /\ nonceCtr = 0
    /\ requests = <<>>
    /\ called = 0
    /\ snd = NoSnd
    /\ imp = NoImp
    /\ args = NoArgs
    /\ server = {}
    /\ mark = NoMark
    /\ cb = "none"

NextMarks == CheckedCall \/ DeletedCall

SpecMarks == InitMarks /\ [][NextMarks]_vars

---------------------------------------------------------------------------
(* Claims about the store, checked under Spec *)

\* C1: no row has deleted = true and checked = false.
C1_CheckedPrecedesDeleted ==
    \A id \in DOMAIN tweets : tweets[id].deleted => tweets[id].checked

\* C2: no step removes a row or turns a true deleted or checked flag false.
C2_FlagsMonotonic ==
    [][\A id \in DOMAIN tweets :
          /\ id \in DOMAIN tweets'
          /\ tweets[id].deleted => tweets'[id].deleted
          /\ tweets[id].checked => tweets'[id].checked]_vars

\* an archive was imported again over a row already checked and deleted
C2_Witness ==
    /\ cmd = "import"
    /\ pc = "chunk"
    /\ imp.again
    /\ Id2 \in DOMAIN tweets
    /\ tweets[Id2].deleted
    /\ tweets[Id2].checked

\* C3: importing an archive that was imported before reports no error, adds
\* no row, leaves the number of rows as it was and leaves every row as it
\* was.
C3_IdempotentImport ==
    [][(pc = "idle" /\ cmd' = "import" /\ imp'.again) =>
          /\ ~imp'.err
          /\ pc' = "chunk"
          /\ imp'.added = 0
          /\ count_tweets(tweets') = count_tweets(tweets)
          /\ \A id \in DOMAIN tweets : tweets'[id] = tweets[id]]_vars

\* archive "A" was imported a second time, over rows that a lookup or a
\* delete run had marked in between
C3_Witness ==
    /\ cmd = "import"
    /\ imp.again
    /\ imp.src = "A"
    /\ ~imp.err
    /\ count_tweets(tweets) >= 2
    /\ \E id \in DOMAIN tweets : tweets[id].checked \/ tweets[id].deleted

---------------------------------------------------------------------------
(* Claims about lookup_tweets and rate_limit, checked under SpecLookup *)

CeilDiv(n, d) == (n + d - 1) \div d

NonEmptyIds == \A i \in 1..Len(input) : input[i] # <<>>

\* number of ids in a request's `id` parameter
ChunkSize(ids) == Cardinality(Commas(ids)) + 1

\* C4: for a sequence of N non-empty ids, the k-th request lookup_tweets
\* issues carries ids 100(k-1)+1 .. min(100k, N) of the input, in order and
\* joined by ','; the chunk is never empty and only the last may be shorter
\* than 100; a lookup that returns Ok has issued exactly ceil(N / 100)
\* requests (so the chunks together are the whole input).
C4_BatchChunking ==
    [][NonEmptyIds =>
        /\ requests' # requests =>
              LET k == Len(requests) + 1
                  lo == BatchSize * (k - 1) + 1
                  hi == Min(BatchSize * k, Len(input))
              IN  /\ lo <= hi
                  /\ hi - lo + 1 = BatchSize \/ hi = Len(input)
                  /\ requests' = Append(requests, Join(SubSeq(input, lo, hi)))
                  /\ requests'[k] # <<>>
        /\ (pc' = "done" /\ result' = "ok") =>
              Len(requests') = CeilDiv(Len(input), BatchSize)
      ]_vars

\* 250 ids were looked up in three requests of 100, 100 and 50 ids
C4_Witness ==
    /\ NonEmptyIds
    /\ Len(input) = 2 * BatchSize + 50
    /\ pc = "done"
    /\ result = "ok"
    /\ Len(requests) = 3
    /\ ChunkSize(requests[1]) = BatchSize
    /\ ChunkSize(requests[2]) = BatchSize
    /\ ChunkSize(requests[3]) = 50

\* C5: every 429 response of a rate_limit call has caused exactly one
\* on_limit invocation, and when the hook succeeded the call slept and is
\* about to send again; a 2xx response is handed back at once, without hook
\* and without sleep (so k 429s then a 2xx give k hooks and k + 1 attempts).
C5_RateLimitRetry ==
    /\ snd.hooks = snd.n429
    /\ (snd.last.status = TOO_MANY_REQUESTS /\ ~snd.hookErr) =>
          (snd.lastSleep # NoSleep /\ pc = "send")
    /\ is_success(snd.last.status) =>
          /\ snd.failed = "no"
          /\ snd.lastLimit = NoLimit
          /\ snd.lastSleep = NoSleep
          /\ pc \in {"callback", "chunk", "done"}

\* C6: no two attempts of one rate_limit call carry the same oauth_nonce.
C6_FreshSignaturePerAttempt ==
    \A i, j \in 1..Len(snd.nonces) :
        i # j => snd.nonces[i] # snd.nonces[j]

\* C7: the sleep after a 429 is reset - now when the reset time is in the
\* future, the fallback (15 minutes) when the header is absent or the reset
\* time is in the past, never negative and never above
\* max(fallback, reset - now).
C7_SleepDuration ==
    (snd.last.status = TOO_MANY_REQUESTS /\ snd.lastSleep # NoSleep) =>
        LET h == snd.last.reset
        IN  /\ (h.kind = "num" /\ h.val > Now0) => snd.lastSleep = h.val - Now0
            /\ (h.kind = "absent" \/ (h.kind = "num" /\ h.val < Now0)) =>
                  snd.lastSleep = FallbackSecs
            /\ snd.lastSleep >= 0
            /\ snd.lastSleep <= Max(FallbackSecs, h.val - Now0)

\* C8: a 429 response makes rate_limit return Err only when on_limit returned
\* Err; with a reset header that is no number the call sleeps the fallback
\* duration and is about to send again.
C8_RateLimitNeverFails ==
    /\ (snd.last.status = TOO_MANY_REQUESTS /\ snd.failed # "no") => snd.hookErr
    /\ (snd.last.status = TOO_MANY_REQUESTS /\ snd.last.reset.kind = "text"
            /\ ~snd.hookErr) =>
          (snd.lastSleep = FallbackSecs /\ pc = "send")

\* C9: when on_limit returned Err, rate_limit has returned Err without
\* sleeping, lookup_tweets has returned that Err, and nothing more happens:
\* no further attempt, no further chunk, no further on_chunk.
C9_HookErrorIsTerminal ==
    snd.hookErr =>
        /\ pc = "done"
        /\ result = "err"
        /\ snd.failed = "hook"
        /\ snd.lastSleep = NoSleep
        /\ ~ENABLED (Attempt \/ SendFails \/ LookupChunk \/ OnChunk)

\* the hook failed on the first chunk while more ids were waiting
C9_Witness ==
    /\ snd.hookErr
    /\ Len(requests) = 1
    /\ called = 0
    /\ Len(rest) > 0

IsPermanentError(status) == is_client_error(status) /\ status # TOO_MANY_REQUESTS

\* C11 as stated: after a 4xx response other than 429 rate_limit has returned
\* the Err that carries the status and the body, on that attempt: it has not
\* invoked on_limit for the response, has not slept, and sends nothing more.
C11_ClientErrorIsTerminal ==
    IsPermanentError(snd.last.status) =>
        /\ snd.failed = "status"
        /\ snd.lastLimit = NoLimit
        /\ snd.lastSleep = NoSleep
        /\ pc = "done"
        /\ result = "err"
        /\ ~ENABLED (Attempt \/ SendFails \/ LookupChunk \/ OnChunk)

\* C11 amended: after a 4xx response other than 429 rate_limit has returned
\* Err on that attempt, the Err that carries the status and the body or, when
\* the body cannot be read, the Err of reading it: it has not invoked
\* on_limit for the response, has not slept, and sends nothing more.
C11_ClientErrorEndsCall ==
    IsPermanentError(snd.last.status) =>
        /\ snd.failed \in {"status", "text"}
        /\ snd.lastLimit = NoLimit
        /\ snd.lastSleep = NoSleep
        /\ pc = "done"
        /\ result = "err"
        /\ ~ENABLED (Attempt \/ SendFails \/ LookupChunk \/ OnChunk)

\* a retried request was answered 403 while more ids were waiting
C11_Witness ==
    /\ snd.last.status = FORBIDDEN
    /\ snd.failed = "status"
    /\ snd.attempts = 2
    /\ snd.sleeps = 1
    /\ Len(rest) > 0

---------------------------------------------------------------------------
(* Claims about the delete command, checked under Spec *)

BecomesDeleted(id) ==
    /\ id \in DOMAIN tweets
    /\ id \in DOMAIN tweets'
    /\ ~tweets[id].deleted
    /\ tweets'[id].deleted

\* the response in hand is the last one received, it answers a lookup request
\* that named `id`, and its body maps `id` to None
LookupSaysGone(id) ==
    /\ cmd = "import"
    /\ pc = "callback"
    /\ res = snd.last
    /\ id \in RequestedIds
    /\ res.body.json
    /\ id \in DOMAIN res.body.id
    /\ ~res.body.id[id]

\* the response in hand is the last one received, it answers the delete
\* request of `id`, and its status is 2xx or 404
DeleteSaysGone(id) ==
    /\ cmd = "delete"
    /\ pc = "callback"
    /\ res = snd.last
    /\ req.ids = id
    /\ is_success(res.status) \/ res.status = NOT_FOUND

\* C13: a row's deleted flag turns true only in a step that handles a
\* response about that id: a lookup response that maps the id to None, or a
\* 2xx or 404 response to the delete request of the id. So a 403, a lookup
\* that reports the tweet present, or no response at all never marks it.
C13_DeletedOnlyAfterConfirmation ==
    [][\A id \in DOMAIN tweets :
          BecomesDeleted(id) => (LookupSaysGone(id) \/ DeleteSaysGone(id))]_vars

\* one tweet was marked deleted by a lookup; the delete request of another
\* was answered 403 and on_result left it unmarked
C13_Witness ==
    /\ cmd = "delete"
    /\ pc = "next"
    /\ res.status = FORBIDDEN
    /\ called >= 1
    /\ ~tweets[req.ids].deleted
    /\ \E id \in DOMAIN tweets : tweets[id].deleted /\ tweets[id].checked

\* the set of the items of a sequence
Range(q) == {q[i] : i \in 1..Len(q)}

\* strictly ascending by id: ordered, and no id twice
Ascending(q) == \A i, j \in 1..Len(q) : i < j => StrLess(q[i], q[j])

\* C14: the ids the import command selects for the lookup are exactly the
\* ids of the rows with checked = false, each once, in ascending order,
\* whatever the state of the table.
C14_SelectUnchecked ==
    [][(pc = "idle" /\ cmd' = "import" /\ pc' = "chunk") =>
          /\ Range(input') = {id \in DOMAIN tweets' : ~tweets'[id].checked}
          /\ Ascending(input')]_vars

\* C15: the ids the delete command selects are exactly the ids of the rows
\* with deleted = false, created_at < cutoff (strictly), id not excluded,
\* likes <= max_likes and retweets <= max_retweets, each once, in ascending
\* order; and every delete request of the run is for an id of that selection.
C15_SelectDeletable ==
    [][/\ (pc = "idle" /\ cmd' = "delete") =>
            /\ Range(input') =
                  {id \in DOMAIN tweets :
                      /\ tweets[id].deleted = FALSE
                      /\ tweets[id].created_at < args'.off
                      /\ id \notin args'.exclude
                      /\ tweets[id].likes <= args'.unless_likes
                      /\ tweets[id].retweets <= args'.unless_retweets}
            /\ Ascending(input')
       /\ (cmd = "delete" /\ requests' # requests /\ cmd' = "delete") =>
            /\ Len(requests') = Len(requests) + 1
            /\ requests'[Len(requests')] \in Range(input)
      ]_vars

\* a delete run with a cutoff of one day sent a request while a tweet
\* created exactly at the cutoff, within both thresholds and not excluded,
\* was left out of the selection
C15_Witness ==
    /\ cmd = "delete"
    /\ Len(requests) >= 1
    /\ Len(input) >= 1
    /\ \E id \in DOMAIN tweets :
          /\ tweets[id].created_at = args.off
          /\ ~tweets[id].deleted
          /\ id \notin args.exclude
          /\ tweets[id].likes <= args.unless_likes
          /\ tweets[id].retweets <= args.unless_retweets
          /\ id \notin Range(input)

\* the ids a delete run has selected for deletion or already sent a delete
\* request for
Targeted == Range(input) \cup Range(requests)

\* C16: a delete run skips every tweet whose likes are below unless_likes or
\* whose retweets are below unless_retweets: it does not select it, sends no
\* delete request for it and does not mark it deleted.
C16_UnlessThresholds ==
    cmd = "delete" =>
        \A id \in Targeted :
            /\ tweets[id].likes >= args.unless_likes
            /\ tweets[id].retweets >= args.unless_retweets

\* the arguments of `delete --older_than 0`: the cutoff is now, nothing is
\* excluded, and both thresholds have their default value 0
OlderThanZero ==
    [off |-> Now0, exclude |-> {}, unless_likes |-> 0, unless_retweets |-> 0]

\* C17: a run of `delete --older_than 0` with no other option selects every
\* tweet: every row is either marked deleted or in the selection of the run,
\* whatever its likes and retweets.
C17_OlderThanZeroSelectsAll ==
    (cmd = "delete" /\ args = OlderThanZero) =>
        \A id \in DOMAIN tweets : tweets[id].deleted \/ id \in Range(input)

---------------------------------------------------------------------------
(* Claims about checked and deleted, checked under SpecMarks *)

\* C18: a call of checked or deleted in which an update returns a storage
\* error returns Err and leaves every row as it was before the call, the
\* rows updated earlier in the call included.
C18_MarksAllOrNothing ==
    [][mark' # mark =>
          /\ mark'.failAt \in 1..Len(mark'.ids) => mark'.err
          /\ mark'.err => tweets' = tweets]_vars

\* the second update of a call of checked failed after the first had
\* matched a row that was not checked, and that row is still not checked
C18_Witness ==
    /\ mark.op = "checked"
    /\ mark.err
    /\ mark.failAt = 2
    /\ mark.ids[1] \in DOMAIN tweets
    /\ ~tweets[mark.ids[1]].checked

---------------------------------------------------------------------------
(* Claims about the callback of the import command, checked under Spec *)

\* C19: the step that ends on_chunk for a lookup response either returns Ok,
\* and then every id of the response is checked, exactly those mapped to
\* None are deleted and no other row has changed; or it fails or is cut short
\* by the death of the process, and then the table is as it was before.
C19_BatchMarksAtomic ==
    [][(cmd = "import" /\ pc = "callback" /\ pc' # "callback") =>
          IF pc' = "chunk"
          THEN /\ res.body.json
               /\ \A id \in DOMAIN tweets :
                     IF id \in DOMAIN res.body.id
                     THEN /\ tweets'[id].checked
                          /\ tweets'[id].deleted <=> ~res.body.id[id]
                          /\ [tweets'[id] EXCEPT !.checked = FALSE, !.deleted = FALSE]
                                = [tweets[id] EXCEPT !.checked = FALSE, !.deleted = FALSE]
                     ELSE tweets'[id] = tweets[id]
          ELSE tweets' = tweets]_vars

\* on_chunk returned Ok for a response that reports one tweet gone and one
\* present: both are checked, only the first is deleted
C19_Witness ==
    /\ cmd = "import"
    /\ pc = "chunk"
    /\ called = 1
    /\ res.body.json
    /\ \E a, b \in DOMAIN res.body.id :
          /\ ~res.body.id[a]
          /\ res.body.id[b]
          /\ tweets[a].checked
          /\ tweets[a].deleted
          /\ tweets[b].checked
          /\ ~tweets[b].deleted

---------------------------------------------------------------------------
(* Claims about runs that follow interrupted runs, checked under Spec *)

\* the ids of the request a step has issued
Issued(q) == IF cmd = "import" THEN Range(Split(q)) ELSE {q}

\* C20: a run that starts after earlier runs ended or were killed selects no
\* row whose mark those runs committed: an import run selects no checked
\* row for its lookup, a delete run selects no deleted row, and every
\* request of a run names only ids of its selection; and the end or the
\* death of a run changes no row.
C20_NoDoubleProcessing ==
    [][/\ (pc = "idle" /\ cmd' = "import" /\ pc' = "chunk") =>
            \A id \in DOMAIN tweets' : tweets'[id].checked => id \notin Range(input')
       /\ (pc = "idle" /\ cmd' = "delete") =>
            \A id \in DOMAIN tweets' : tweets'[id].deleted => id \notin Range(input')
       /\ (requests' # requests /\ cmd' # "none") =>
            /\ Len(requests') = Len(requests) + 1
            /\ Issued(requests'[Len(requests')]) \subseteq Range(input)
       /\ (cmd # "none" /\ cmd' = "none") => tweets' = tweets
      ]_vars

\* after an archive was imported a second time, a delete run has sent a
\* request while a row that an earlier run marked checked and deleted is
\* not in its selection
C20_Witness ==
    /\ cmd = "delete"
    /\ imp.again
    /\ Len(requests) >= 1
    /\ \E id \in DOMAIN tweets :
          /\ tweets[id].checked
          /\ tweets[id].deleted
          /\ id \notin Range(input)
          /\ id \notin Range(requests)

---------------------------------------------------------------------------
(* Claims about completed import runs, checked under Spec *)

\* an import run has returned Ok: the archive was imported and the lookup
\* of the selected tweets went through to its end
ImportCompleted == cmd = "import" /\ pc = "done" /\ result = "ok"

\* C21: when an import run has completed without error, every row of the
\* table has checked = true (the number of checked rows is the number of
\* rows), whatever runs came before.
C21_CompletedImportChecksAll ==
    ImportCompleted => \A id \in DOMAIN tweets : tweets[id].checked

---------------------------------------------------------------------------
(* Claims about the loop of lookup_tweets, checked under SpecLookup *)

\* the requests of the run whose response rate_limit has handed back
Answered ==
    IF pc = "send" /\ snd.attempts > 0 THEN Len(requests) - 1
    ELSE IF pc = "done" /\ snd.failed # "no" THEN Len(requests) - 1
    ELSE Len(requests)

\* C22: lookup_tweets returns the first Err of rate_limit or of on_chunk and
\* stops there: once either has returned Err the call has returned Err and
\* requests no further chunk and invokes on_chunk no more; on_chunk has been
\* invoked once for every request whose response was handed back (all of
\* them but the one in hand); and no two requests of a run carry the same
\* chunk.
C22_LookupStopsAtFirstError ==
    /\ (snd.failed # "no" \/ cb = "err") =>
          /\ pc = "done"
          /\ result = "err"
          /\ ~ENABLED (LookupChunk \/ Attempt \/ SendFails \/ OnChunk)
    /\ result = "err" => (snd.failed # "no" \/ cb = "err")
    /\ called = Answered - (IF pc = "callback" THEN 1 ELSE 0)
    /\ \A i, j \in 1..Len(requests) : i # j => requests[i] # requests[j]
    /\ Len(requests) <= CeilDiv(Len(input), BatchSize)

\* on_chunk returned Err for the second chunk of three: two requests were
\* sent, on_chunk was invoked twice, and the third chunk is still waiting
C22_Witness ==
    /\ cb = "err"
    /\ snd.failed = "no"
    /\ called = 2
    /\ Len(requests) = 2
    /\ Len(rest) > 0

\* what the k-th request of a run carries when the ids are taken in the
\* order of the input: the k-th chunk of 100 ids, or the k-th id of a delete
KthRequest(k) ==
    IF cmd = "delete" THEN input[k]
    ELSE Join(SubSeq(input, BatchSize * (k - 1) + 1, Min(BatchSize * k, Len(input))))

\* C23: the requests of a run follow the order of the input, and a request
\* is first sent only when every earlier request has been answered for good
\* and the callback for its response has returned: nothing is in flight.
C23_InOrderOneInFlight ==
    [][(requests' # requests /\ cmd' # "none") =>
          /\ Len(requests') = Len(requests) + 1
          /\ SubSeq(requests', 1, Len(requests)) = requests
          /\ requests'[Len(requests')] = KthRequest(Len(requests'))
          /\ pc = "send"
          /\ snd.attempts = 0
          /\ called = Len(requests)
          /\ Len(requests) > 0 => (res # NoRes /\ cb = "ok")
      ]_vars

\* the third chunk is being retried after the first two were answered and
\* handed to on_chunk
C23_Witness ==
    /\ Len(requests) = 3
    /\ called = 2
    /\ cb = "ok"
    /\ pc = "send"
    /\ snd.attempts = 2

---------------------------------------------------------------------------
(* Claims about what the commands leave alone, checked under Spec *)

\* C24 as stated: no step changes the account_id of a row.
C24_AccountIdImmutable ==
    [][\A id \in DOMAIN tweets :
          id \in DOMAIN tweets' /\ tweets'[id].account_id = tweets[id].account_id]_vars

\* C24 amended: the account_id of a row changes only in an update run, and
\* only from the unknown account "0" to the account of the archive given to
\* the update; no import, lookup or delete changes it, and the account_id of
\* a row of a known account never changes.
C24_AccountIdSetOnceByUpdate ==
    [][\A id \in DOMAIN tweets :
          /\ id \in DOMAIN tweets'
          /\ tweets'[id].account_id # tweets[id].account_id =>
                /\ tweets[id].account_id = "0"
                /\ cmd = "none" /\ cmd' = "none" /\ pc = "idle" /\ pc' = "idle"
                /\ tweets'[id].account_id \in {a.account : a \in Archives}
                /\ tweets'[id].account_id \in accounts'
                /\ \A other \in DOMAIN tweets :
                      tweets[other].account_id # "0" => tweets'[other] = tweets[other]
      ]_vars

\* the tweet of the unknown account was given account "B" by an update (no
\* archive of "B" lists it), next to a tweet imported from the archive of "A"
C24_Witness ==
    /\ Id1 \in DOMAIN tweets
    /\ tweets[Id1].account_id = "B"
    /\ Id2 \in DOMAIN tweets
    /\ tweets[Id2].account_id = "A"

---------------------------------------------------------------------------
(* Claims about checked and deleted, checked under SpecMarks (continued) *)

\* how many of the supplied ids (each occurrence counted) are in the table
Existing(ids) == Cardinality({i \in 1..Len(ids) : ids[i] \in DOMAIN tweets})

\* the call recorded in `mark`, made once more on the present table
Again ==
    IF mark.op = "checked" THEN checked(tweets, mark.ids, 0)
    ELSE deleted(tweets, mark.ids, 0)

\* C25: after a call of checked or deleted that returned Ok, the same call
\* made again leaves the table as it is and returns the same count as the
\* first; the count is the number of supplied ids that are in the table,
\* already marked or not.
C25_MarksIdempotent ==
    (mark.op # "none" /\ ~mark.err) =>
        /\ Again.tweets = tweets
        /\ ~Again.err
        /\ Again.gone = mark.gone
        /\ mark.gone = Existing(mark.ids)

\* checked was called with the same id twice: the second update found the
\* row already checked and was counted all the same
C25_Witness ==
    /\ mark.op = "checked"
    /\ ~mark.err
    /\ mark.ids = <<Id1, Id1>>
    /\ mark.gone = 2
    /\ tweets[Id1].checked

\* the row after the call recorded in `m` has set its flag on it
Flagged(row, m) ==
    IF m.op = "checked" THEN [row EXCEPT !.checked = TRUE]
    ELSE [row EXCEPT !.deleted = TRUE]

\* C26: no step removes a row or changes the counts or created_at of a row,
\* and only an import adds rows. A call of checked or deleted adds and
\* removes no row; when it returns Ok it has set its flag on the rows of the
\* supplied ids that are in the table and changed nothing else, and an id
\* that is not in the table adds nothing to the count.
C26_MarksTouchOnlyTheirFlag ==
    [][/\ DOMAIN tweets \subseteq DOMAIN tweets'
       /\ DOMAIN tweets' # DOMAIN tweets => (pc = "idle" /\ cmd' = "import")
       /\ \A id \in DOMAIN tweets :
             /\ tweets'[id].retweets = tweets[id].retweets
             /\ tweets'[id].likes = tweets[id].likes
             /\ tweets'[id].created_at = tweets[id].created_at
       /\ mark' # mark =>
             /\ DOMAIN tweets' = DOMAIN tweets
             /\ \A id \in DOMAIN tweets :
                   tweets'[id] = IF ~mark'.err /\ id \in Range(mark'.ids)
                                 THEN Flagged(tweets[id], mark')
                                 ELSE tweets[id]
             /\ mark'.gone <= Cardinality({i \in 1..Len(mark'.ids) :
                                              mark'.ids[i] \in DOMAIN tweets})
      ]_vars

\* deleted was called with an id that is not in the table and one that is:
\* one row counted, that row deleted and still unchecked, no row added
C26_Witness ==
    /\ mark.op = "deleted"
    /\ ~mark.err
    /\ mark.ids = <<Id10, Id2>>
    /\ mark.gone = 1
    /\ Id10 \notin DOMAIN tweets
    /\ tweets[Id2].deleted
    /\ ~tweets[Id2].checked

\* C27: rate_limit hands a response to its caller only when the response
\* has a 2xx status, and after every response that is not 2xx the pass
\* either returned Err or slept before the next send.
C27_NoResendWithoutSleep ==
    /\ pc = "callback" => is_success(res.status)
    /\ (snd.attempts > 0 /\ snd.last # NoRes /\ ~is_success(snd.last.status)) =>
          (snd.failed # "no" \/ snd.lastSleep # NoSleep)

\* lookup_tweets has returned
Returned == pc = "done" /\ result \in {"ok", "err"}

\* the requests sent are the chunks of the input, one after the other: every
\* id of the input is in exactly one request
SentOnce ==
    requests = [k \in 1..CeilDiv(Len(input), BatchSize) |->
                   Join(SubSeq(input, BatchSize * (k - 1) + 1,
                               Min(BatchSize * k, Len(input))))]

\* the call ended with the Err of rate_limit for the last request, before
\* any on_chunk returned Err, or with the Err of the last on_chunk
FirstError ==
    /\ result = "err"
    /\ (snd.failed # "no" /\ cb # "err") \/ (snd.failed = "no" /\ cb = "err")

\* C28 as stated: against an API that answers every request with finitely
\* many 429 and 5xx and then a 2xx or a 4xx other than 429, lookup_tweets
\* eventually returns, and it returns Ok after every id of the input was sent
\* in exactly one request, or the first Err.
C28_LookupTerminatesAllSent ==
    /\ <>Returned
    /\ [](Returned => IF result = "ok" THEN SentOnce ELSE FirstError)

\* C28 amended: the same, where Ok after every id was sent in exactly one
\* request is claimed for sequences of non-empty ids.
C28_LookupTerminates ==
    /\ <>Returned
    /\ [](Returned => IF result = "ok" THEN (NonEmptyIds => SentOnce)
                      ELSE FirstError)

\* MaxIds non-empty ids were looked up in three requests, the last of them
\* answered with a 429 and a 5xx before its 2xx, and lookup_tweets returned Ok
C28_Witness ==
    /\ Returned
    /\ result = "ok"
    /\ NonEmptyIds
    /\ Len(input) = MaxIds
    /\ Len(requests) = 3
    /\ SentOnce
    /\ snd.n429 >= 1
    /\ snd.n5xx >= 1

====
